---- MODULE Spec2Model ----
(***************************************************************************)
(* AwsAcmCertValidatorLogic (lambdas/aws_acm_cert_validator/logic.py).     *)
(*                                                                         *)
(* One object, four public operations (request, validate,                  *)
(* remove_validation_record, wait_cert_validated), each a sequential run   *)
(* of calls against ACM, Route53 and STS.  The state is the position of    *)
(* the running operation, its arguments and locals, the clock, the log of  *)
(* the calls it has made to each service, and the records held by the      *)
(* Route53 hosted zones.  The services answer nondeterministically.        *)
(***************************************************************************)
EXTENDS Integers, Sequences, FiniteSets, TLC

\* ------------------------------------------------------------------ bounds
MaxDomainLen == 4      \* longest domain name, in characters
MaxWait      == 3      \* largest max_wait_secs tried
MaxInterval  == 2      \* largest wait_interval_secs tried
MaxLatency   == 1      \* longest time one describe_certificate call takes
MaxStart     == 1      \* latest clock reading at which a wait starts
MaxPolls     == 6      \* describe_certificate calls explored per wait_cert_validated
MaxChallengePolls == 3 \* describe_certificate calls explored per validate

\* ------------------------------------------------------- program constants
RECORD_TTL             == 60
VALIDATE_SLEEP_SECS    == 5

\* -------------------------------------------------------------- value sets
None == "None"

Chars == {"a", "."}

RECURSIVE SeqsUpTo(_)
SeqsUpTo(n) ==
    IF n = 0 THEN {<<>>}
    ELSE LET shorter == SeqsUpTo(n - 1)
         IN  shorter \cup {Append(s, c) : s \in {t \in shorter : Len(t) = n - 1}, c \in Chars}

Domains == SeqsUpTo(MaxDomainLen) \ {<<>>}

Arns == {"arn:cert/1", "arn:cert/2"}

\* cert_info['Subject'] as ACM reports it for a certificate
Subject(arn) == IF arn = "arn:cert/1" THEN "CN=one" ELSE "CN=two"

RoleKey == "CrossAccountDNSZoneIAMRole"
TagsKey == "Tags"
RoleArn == "arn:role/dns"

\* The event argument: None (the default), or a mapping with top-level keys
\* `top` and a ResourceProperties mapping with keys `rp`.
NoEvent == [none |-> TRUE, top |-> {}, rp |-> {}]
Events  == {NoEvent} \cup
           [none : {FALSE}, top : SUBSET {RoleKey}, rp : SUBSET {TagsKey, RoleKey}]

\* ResourceRecord values ACM hands out / callers pass in
DnsRecords == { [Name |-> "_c.a.", Type |-> "CNAME", Value |-> "v1"],
                [Name |-> "_c.a.", Type |-> "CNAME", Value |-> "v2"] }
NoRecord   == [Name |-> "", Type |-> "", Value |-> ""]

\* Answers of list_hosted_zones_by_name: the 'HostedZones' list
ZoneLists == { <<>>, <<"Z1">>, <<"Z1", "Z2">> }

Statuses == {"PENDING_VALIDATION", "SUCCESS", "FAILED"}

VARIABLES
    op,                      \* operation in progress, or "none"
    pc,                      \* position inside it
    event,                   \* its event argument
    cert_arn,                \* its cert_arn argument
    domain,                  \* domain whose zone is derived
    dns_record,              \* dns_validation_record / dns_record
    max_wait_secs, wait_interval_secs, return_empty_on_timeout,
    start, now,              \* start = time.time() at line 134; now = the clock
    validation_status,       \* local of wait_cert_validated
    has_record,              \* 'ResourceRecord' in validation_options (validate)
    hosted_zone,             \* hosted_zone['HostedZones'] of the last zone lookup
    wait_secs,               \* local of wait_cert_validated (line 140)
    acmCalls, stsCalls, r53Calls,   \* calls made by the operation, in order
    sleeps,                  \* time.sleep arguments, in order
    outcome, retArn, retRec, errSecs, errSubject,
    zoneRecords              \* the record sets held by Route53

vars == << op, pc, event, cert_arn, domain, dns_record, max_wait_secs,
           wait_interval_secs, return_empty_on_timeout, start, now,
           validation_status, has_record, hosted_zone, wait_secs, acmCalls,
           stsCalls,
           r53Calls, sleeps, outcome, retArn, retRec, errSecs, errSubject,
           zoneRecords >>

\* ------------------------------------------------------------ pure helpers

\* mutant: tags whenever an event is passed
HasTags_AnyEvent(e) == ~e.none

\* 'Tags' in event['ResourceProperties'], guarded by event is not None (line 27)
HasTags(e) == ~e.none /\ TagsKey \in e.rp

\* 'CrossAccountDNSZoneIAMRole' in event (line 160)
HasRole(e) == RoleKey \in e.top

\* str.index('.'), 0-based; defined when the character occurs
HasDot(d) == \E i \in 1..Len(d) : d[i] = "."
index(d)  == (CHOOSE i \in 1..Len(d) : d[i] = "." /\ \A j \in 1..(i - 1) : d[j] /= ".") - 1

\* d[k:] for a 0-based k
SliceFrom(d, k) == SubSeq(d, k + 1, Len(d))

\* validated_domain[validated_domain.index('.') + 1:]  (line 54)
validated_domain_zone(d) == SliceFrom(d, index(d) + 1)

\* mutant: the slice starts at the '.' itself
dns_zone_KeepDot(d) == SliceFrom(d, index(d))

\* domain[domain.index('.') + 1:]  (line 62)
dns_zone(d) == SliceFrom(d, index(d) + 1)

\* mutant: CREATE instead of UPSERT
UpsertChanges_Create(rec) ==
    << [Action |-> "CREATE", Name |-> rec.Name, Type |-> rec.Type,
        TTL |-> RECORD_TTL, Value |-> rec.Value] >>

\* update_request['Changes'] of _create_route53_record (lines 104-116)
UpsertChanges(rec) ==
    << [Action |-> "UPSERT", Name |-> rec.Name, Type |-> rec.Type,
        TTL |-> RECORD_TTL, Value |-> rec.Value] >>

\* update_request['Changes'] of remove_validation_record (lines 73-85)
DeleteChanges(rec) ==
    << [Action |-> "DELETE", Name |-> rec.Name, Type |-> rec.Type,
        TTL |-> RECORD_TTL, Value |-> rec.Value] >>

\* mutant: the loop never ends by its test
LoopCondition_Always(status) == TRUE

\* while validation_status is None or validation_status != 'SUCCESS' (line 135)
LoopCondition(status) == status = None \/ status /= "SUCCESS"

\* if validation_status != 'SUCCESS' (line 139)
NotValidated(status) == status /= "SUCCESS"

\* time.time() - start (line 140)
Elapsed(clock, started) == clock - started

\* mutant: > for >=
TimedOut_Strict(waited, max_wait) == waited > max_wait

\* if wait_secs >= max_wait_secs (line 142)
TimedOut(waited, max_wait) == waited >= max_wait

\* mutant: the sleep is not cut to the remaining budget
SleepTime_NoClip(interval, waited, max_wait) == interval

\* sleep_time (lines 147-149)
SleepTime(interval, waited, max_wait) ==
    IF interval + waited > max_wait THEN max_wait - waited ELSE interval

\* mutant: the message carries the measured wait
TimeoutSecs_Elapsed(waited, max_wait) == waited

\* the number the timeout message carries (line 146)
TimeoutSecs(waited, max_wait) == max_wait

\* --------------------------------------------------------- service models

Unset == "unset"

AcmCall(api, arn, d, method, tags) ==
    [api |-> api, CertificateArn |-> arn, DomainName |-> d,
     ValidationMethod |-> method, Tags |-> tags]

DescribeCall(arn) == AcmCall("describe_certificate", arn, <<>>, "", FALSE)

\* route53.list_hosted_zones_by_name(DNSName=dns_zone)  (lines 64-66, 95-97)
ListZonesCall(client, zone) ==
    [api |-> "list_hosted_zones_by_name", via |-> client.via,
     session |-> client.session, DNSName |-> zone, HostedZoneId |-> "",
     Changes |-> <<>>]

\* route53.change_resource_record_sets(HostedZoneId=..., ChangeBatch=...)
\* (lines 88-91, 119-122)
ChangeCall(client, zoneId, changes) ==
    [api |-> "change_resource_record_sets", via |-> client.via,
     session |-> client.session, DNSName |-> <<>>, HostedZoneId |-> zoneId,
     Changes |-> changes]

\* sts.assume_role(RoleArn=role_arn, RoleSessionName=uuid4)  (line 179):
\* every call carries a fresh session name and yields fresh credentials
AssumeRoleCall(role, n) == [RoleArn |-> role, RoleSessionName |-> n]

\* _get_role_session / _get_session (lines 166-185): the client of a session
\* built from the credentials of one assume_role call
get_session(role, sts) ==
    [via |-> "assumed", session |-> Len(sts) + 1, role |-> role]

\* boto3.client('route53') on the default identity (line 163)
DefaultClient == [via |-> "default", session |-> 0, role |-> ""]

\* _route53_client (lines 159-164), for an event that is not None
route53_client(e, sts) ==
    IF HasRole(e) THEN get_session(RoleArn, sts) ELSE DefaultClient

\* the STS calls _route53_client adds
StsAfter(e, sts) ==
    IF HasRole(e) THEN Append(sts, AssumeRoleCall(RoleArn, Len(sts) + 1)) ELSE sts

\* Route53's handling of one change of a batch
Held(zoneId, ch) ==
    [zone |-> zoneId, Name |-> ch.Name, Type |-> ch.Type, TTL |-> ch.TTL,
     Value |-> ch.Value]

ChangeAccepted(zs, zoneId, ch) ==
    ch.Action = "DELETE" => Held(zoneId, ch) \in zs

ApplyChange(zs, zoneId, ch) ==
    IF ch.Action = "UPSERT"
    THEN {r \in zs : ~(r.zone = zoneId /\ r.Name = ch.Name /\ r.Type = ch.Type)}
         \cup {Held(zoneId, ch)}
    ELSE zs \ {Held(zoneId, ch)}

RECURSIVE BatchAccepted(_, _, _)
BatchAccepted(zs, zoneId, changes) ==
    IF changes = <<>> THEN TRUE
    ELSE /\ ChangeAccepted(zs, zoneId, Head(changes))
         /\ BatchAccepted(ApplyChange(zs, zoneId, Head(changes)), zoneId, Tail(changes))

RECURSIVE ApplyBatch(_, _, _)
ApplyBatch(zs, zoneId, changes) ==
    IF changes = <<>> THEN zs
    ELSE ApplyBatch(ApplyChange(zs, zoneId, Head(changes)), zoneId, Tail(changes))

\* mutant: the empty answer is not checked
ZoneMissing_Never(hosted) == FALSE

\* hosted_zone['HostedZones'] is empty (lines 67, 98)
ZoneMissing(hosted) == Len(hosted) = 0

\* hosted_zone['HostedZones'][0]['Id'] (lines 69, 100); indexing an empty
\* list raises IndexError
IndexError == "IndexError"
HostedZoneId(hosted) == IF Len(hosted) = 0 THEN IndexError ELSE hosted[1]

\* mutant: the wait for the challenge is skipped
ChallengeMissing_Never(present) == FALSE

\* 'ResourceRecord' not in validation_options (line 46)
ChallengeMissing(present) == ~present

\* ------------------------------------------------------------------ state

args    == << event, cert_arn, domain, dns_record, max_wait_secs,
              wait_interval_secs, return_empty_on_timeout >>
locals  == << start, validation_status, has_record, hosted_zone, wait_secs >>
results == << outcome, retArn, retRec, errSecs, errSubject >>

Init ==
    /\ op = "none" /\ pc = "idle"
    /\ event = NoEvent /\ cert_arn = Unset /\ domain = <<>> /\ dns_record = NoRecord
    /\ max_wait_secs = 0 /\ wait_interval_secs = 0 /\ return_empty_on_timeout = FALSE
    /\ start = 0 /\ now = 0
    /\ validation_status = None /\ has_record = FALSE /\ wait_secs = 0
    /\ hosted_zone = <<>>
    /\ acmCalls = <<>> /\ stsCalls = <<>> /\ r53Calls = <<>> /\ sleeps = <<>>
    /\ outcome = "none" /\ retArn = Unset /\ retRec = NoRecord
    /\ errSecs = 0 /\ errSubject = ""
    /\ zoneRecords = {}

\* ---------------------------------------------------------------- request

\* request(domain_name, event=None)  (lines 19-34)
request(d, e, arn) ==
    /\ pc = "idle"
    /\ op' = "request" /\ pc' = "done"
    /\ event' = e /\ domain' = d /\ cert_arn' = arn
    /\ acmCalls' =
         << AcmCall("request_certificate", "", d, "DNS", FALSE) >> \o
         (IF HasTags(e)
          THEN << AcmCall("add_tags_to_certificate", arn, <<>>, "", TRUE) >>
          ELSE << >>)
    /\ outcome' = "returned" /\ retArn' = arn
    /\ UNCHANGED << dns_record, max_wait_secs, wait_interval_secs,
                    return_empty_on_timeout, locals, now, stsCalls, r53Calls,
                    sleeps, retRec, errSecs, errSubject, zoneRecords >>

\* ------------------------------------------------- _create_route53_record

\* _create_route53_record(dns_record, validated_domain, dns_zone, event)
\* (lines 93-122); the hosted-zone list is Route53's answer
create_route53_record(rec, zone, e) ==
    IF e.none
    THEN /\ outcome' = "TypeError"
         /\ UNCHANGED << stsCalls, r53Calls, zoneRecords, hosted_zone >>
    ELSE \E hosted \in ZoneLists :
           LET client == route53_client(e, stsCalls)
               lookup == ListZonesCall(client, zone)
               change == ChangeCall(client, HostedZoneId(hosted), UpsertChanges(rec))
           IN  /\ stsCalls' = StsAfter(e, stsCalls)
               /\ hosted_zone' = hosted
               /\ IF ZoneMissing(hosted)
                  THEN /\ r53Calls' = Append(r53Calls, lookup)
                       /\ outcome' = "ZoneNotFound"
                       /\ UNCHANGED zoneRecords
                  ELSE IF HostedZoneId(hosted) = IndexError
                  THEN /\ r53Calls' = Append(r53Calls, lookup)
                       /\ outcome' = IndexError
                       /\ UNCHANGED zoneRecords
                  ELSE /\ r53Calls' = r53Calls \o << lookup, change >>
                       /\ IF BatchAccepted(zoneRecords, change.HostedZoneId, change.Changes)
                          THEN /\ zoneRecords' = ApplyBatch(zoneRecords, change.HostedZoneId, change.Changes)
                               /\ outcome' = "returned"
                          ELSE /\ outcome' = "ClientError"
                               /\ UNCHANGED zoneRecords

\* --------------------------------------------------------------- validate

\* validate(cert_arn, event=None): entry (lines 36-43)
validate_begin(arn, e) ==
    /\ pc = "idle"
    /\ op' = "validate" /\ pc' = "v_describe"
    /\ cert_arn' = arn /\ event' = e
    /\ UNCHANGED << domain, dns_record, max_wait_secs, wait_interval_secs,
                    return_empty_on_timeout, locals, now, acmCalls, stsCalls,
                    r53Calls, sleeps, results, zoneRecords >>

\* acm.describe_certificate and DomainValidationOptions[0] (lines 44-45, 49-50)
validate_describe ==
    /\ pc = "v_describe"
    /\ Len(acmCalls) < MaxChallengePolls
    /\ acmCalls' = Append(acmCalls, DescribeCall(cert_arn))
    /\ \/ /\ has_record' = FALSE
          /\ UNCHANGED << domain, dns_record >>
       \/ \E d \in Domains, rec \in DnsRecords :
            /\ has_record' = TRUE
            /\ domain' = d
            /\ dns_record' = rec
    /\ pc' = "v_loop"
    /\ UNCHANGED << op, event, cert_arn, max_wait_secs, wait_interval_secs,
                    return_empty_on_timeout, start, validation_status, wait_secs,
                    hosted_zone, now, stsCalls, r53Calls, sleeps, results, zoneRecords >>

\* while 'ResourceRecord' not in validation_options: time.sleep(5) (lines 46-48)
validate_sleep ==
    /\ pc = "v_loop"
    /\ ChallengeMissing(has_record)
    /\ sleeps' = Append(sleeps, VALIDATE_SLEEP_SECS)
    /\ now' = now + VALIDATE_SLEEP_SECS
    /\ pc' = "v_describe"
    /\ UNCHANGED << op, args, locals, acmCalls, stsCalls, r53Calls, results,
                    zoneRecords >>

\* lines 52-59: derive the zone, publish the record, return it
validate_publish ==
    /\ pc = "v_loop"
    /\ ~ChallengeMissing(has_record)
    /\ IF ~HasDot(domain)
       THEN /\ outcome' = "ValueError"
            /\ UNCHANGED << stsCalls, r53Calls, zoneRecords, hosted_zone >>
       ELSE create_route53_record(dns_record, validated_domain_zone(domain), event)
    /\ retRec' = IF outcome' = "returned" THEN dns_record ELSE NoRecord
    /\ pc' = "done"
    /\ UNCHANGED << op, args, start, validation_status, has_record, wait_secs,
                    now, acmCalls, sleeps, retArn, errSecs, errSubject >>

\* ----------------------------------------------- remove_validation_record

\* remove_validation_record(domain, dns_record, event=None)  (lines 61-91)
remove_validation_record(d, rec, e) ==
    /\ pc = "idle"
    /\ op' = "remove" /\ pc' = "done"
    /\ domain' = d /\ dns_record' = rec /\ event' = e
    /\ IF ~HasDot(d)
       THEN /\ outcome' = "ValueError"
            /\ UNCHANGED << stsCalls, r53Calls, zoneRecords, hosted_zone >>
       ELSE IF e.none
       THEN /\ outcome' = "TypeError"
            /\ UNCHANGED << stsCalls, r53Calls, zoneRecords, hosted_zone >>
       ELSE \E hosted \in ZoneLists :
              LET client == route53_client(e, stsCalls)
                  lookup == ListZonesCall(client, dns_zone(d))
                  change == ChangeCall(client, HostedZoneId(hosted), DeleteChanges(rec))
              IN  /\ stsCalls' = StsAfter(e, stsCalls)
                  /\ hosted_zone' = hosted
                  /\ IF ZoneMissing(hosted)
                     THEN /\ r53Calls' = Append(r53Calls, lookup)
                          /\ outcome' = "ZoneNotFound"
                          /\ UNCHANGED zoneRecords
                     ELSE IF HostedZoneId(hosted) = IndexError
                     THEN /\ r53Calls' = Append(r53Calls, lookup)
                          /\ outcome' = IndexError
                          /\ UNCHANGED zoneRecords
                     ELSE /\ r53Calls' = r53Calls \o << lookup, change >>
                          /\ IF BatchAccepted(zoneRecords, change.HostedZoneId, change.Changes)
                             THEN /\ zoneRecords' = ApplyBatch(zoneRecords, change.HostedZoneId, change.Changes)
                                  /\ outcome' = "returned"
                             ELSE /\ outcome' = "ClientError"
                                  /\ UNCHANGED zoneRecords
    /\ retArn' = IF outcome' = "returned" THEN None ELSE Unset
    /\ UNCHANGED << cert_arn, max_wait_secs, wait_interval_secs,
                    return_empty_on_timeout, start, validation_status,
                    has_record, wait_secs, now, acmCalls, sleeps, retRec,
                    errSecs, errSubject >>

\* ---------------------------------------------------- wait_cert_validated

WaitParams == (0..MaxWait) \X (0..MaxInterval)

\* entry: validation_status = None; start = time.time()  (lines 124-134)
wait_begin(arn, max_wait, interval, empty, t0) ==
    /\ pc = "idle"
    /\ op' = "wait" /\ pc' = "w_loop"
    /\ cert_arn' = arn
    /\ max_wait_secs' = max_wait
    /\ wait_interval_secs' = interval
    /\ return_empty_on_timeout' = empty
    /\ now' = t0 /\ start' = t0
    /\ validation_status' = None
    /\ UNCHANGED << event, domain, dns_record, has_record, hosted_zone,
                    wait_secs, acmCalls, stsCalls, r53Calls, sleeps, results,
                    zoneRecords >>

\* loop test passes; describe_certificate; read ValidationStatus (lines 135-138)
wait_describe ==
    /\ pc = "w_loop"
    /\ LoopCondition(validation_status)
    /\ Len(acmCalls) < MaxPolls
    /\ \E st \in Statuses, latency \in 0..MaxLatency :
         /\ validation_status' = st
         /\ now' = now + latency
    /\ acmCalls' = Append(acmCalls, DescribeCall(cert_arn))
    /\ pc' = "w_body"
    /\ UNCHANGED << op, args, start, has_record, hosted_zone, wait_secs,
                    stsCalls, r53Calls, sleeps, results, zoneRecords >>

\* the if of line 139 is skipped
wait_skip ==
    /\ pc = "w_body"
    /\ ~NotValidated(validation_status)
    /\ pc' = "w_loop"
    /\ UNCHANGED << op, args, locals, now, acmCalls, stsCalls, r53Calls, sleeps,
                    results, zoneRecords >>

\* lines 140-146: the budget is used up
wait_timeout ==
    /\ pc = "w_body"
    /\ NotValidated(validation_status)
    /\ wait_secs' = Elapsed(now, start)
    /\ TimedOut(wait_secs', max_wait_secs)
    /\ IF return_empty_on_timeout
       THEN /\ outcome' = "returned" /\ retArn' = None
            /\ UNCHANGED << errSecs, errSubject >>
       ELSE /\ outcome' = "Timeout"
            /\ errSecs' = TimeoutSecs(wait_secs', max_wait_secs)
            /\ errSubject' = Subject(cert_arn)
            /\ UNCHANGED retArn
    /\ pc' = "done"
    /\ UNCHANGED << op, args, start, validation_status, has_record,
                    hosted_zone, now, acmCalls, stsCalls, r53Calls, sleeps,
                    retRec, zoneRecords >>

\* lines 140-153: sleep and go round again
wait_sleep ==
    /\ pc = "w_body"
    /\ NotValidated(validation_status)
    /\ wait_secs' = Elapsed(now, start)
    /\ ~TimedOut(wait_secs', max_wait_secs)
    /\ LET sleep_time == SleepTime(wait_interval_secs, wait_secs', max_wait_secs)
       IN  /\ sleeps' = Append(sleeps, sleep_time)
           /\ now' = now + sleep_time
    /\ pc' = "w_loop"
    /\ UNCHANGED << op, args, start, validation_status, has_record,
                    hosted_zone, acmCalls, stsCalls, r53Calls, results,
                    zoneRecords >>

\* loop test fails: return cert_arn (lines 135, 155-157)
wait_return ==
    /\ pc = "w_loop"
    /\ ~LoopCondition(validation_status)
    /\ outcome' = "returned" /\ retArn' = cert_arn
    /\ pc' = "done"
    /\ UNCHANGED << op, args, locals, now, acmCalls, stsCalls, r53Calls, sleeps,
                    retRec, errSecs, errSubject, zoneRecords >>

\* ------------------------------------------------------------ the caller

\* The operation is over; the object holds nothing of it (only self.region,
\* lines 13-17), Route53 keeps its records.
Finish ==
    /\ pc = "done"
    /\ op' = "none" /\ pc' = "idle"
    /\ event' = NoEvent /\ cert_arn' = Unset /\ domain' = <<>> /\ dns_record' = NoRecord
    /\ max_wait_secs' = 0 /\ wait_interval_secs' = 0 /\ return_empty_on_timeout' = FALSE
    /\ start' = 0 /\ now' = 0
    /\ validation_status' = None /\ has_record' = FALSE /\ wait_secs' = 0
    /\ hosted_zone' = <<>>
    /\ acmCalls' = <<>> /\ stsCalls' = <<>> /\ r53Calls' = <<>> /\ sleeps' = <<>>
    /\ outcome' = "none" /\ retArn' = Unset /\ retRec' = NoRecord
    /\ errSecs' = 0 /\ errSubject' = ""
    /\ UNCHANGED zoneRecords

Next ==
    \/ \E d \in Domains, e \in Events, arn \in Arns : request(d, e, arn)
    \/ \E arn \in Arns, e \in Events : validate_begin(arn, e)
    \/ validate_describe
    \/ validate_sleep
    \/ validate_publish
    \/ \E d \in Domains, rec \in DnsRecords, e \in Events :
         remove_validation_record(d, rec, e)
    \/ \E arn \in Arns, p \in WaitParams, empty \in BOOLEAN, t0 \in 0..MaxStart :
         wait_begin(arn, p[1], p[2], empty, t0)
    \/ wait_describe
    \/ wait_skip
    \/ wait_timeout
    \/ wait_sleep
    \/ wait_return
    \/ Finish

Spec == Init /\ [][Next]_vars

\* ==================================================================== claims

Min(a, b) == IF a < b THEN a ELSE b

RECURSIVE Sum(_)
Sum(q) == IF q = <<>> THEN 0 ELSE Head(q) + Sum(Tail(q))

IsChange(c) == c.api = "change_resource_record_sets"
IsLookup(c) == c.api = "list_hosted_zones_by_name"
ChangeCalls == SelectSeq(r53Calls, IsChange)
LookupCalls == SelectSeq(r53Calls, IsLookup)

IsRequestCertificate(c) == c.api = "request_certificate"
IsAddTags(c)            == c.api = "add_tags_to_certificate"

InWait     == op = "wait"
InValidate == op = "validate"
InRemove   == op = "remove"
Done       == pc = "done"

\* C1: in wait_cert_validated, once a poll has answered SUCCESS no further
\* describe_certificate call and no sleep is made, the call can only go on to
\* return, and it returns the cert_arn it was given; every earlier poll was
\* followed by one sleep.
C1_ReturnsOnFirstSuccess ==
    /\ [](InWait /\ validation_status = "SUCCESS" =>
            /\ Len(sleeps) = Len(acmCalls) - 1
            /\ pc \in {"w_body", "w_loop", "done"}
            /\ (~Done => ENABLED (wait_skip \/ wait_return))
            /\ (Done => outcome = "returned" /\ retArn = cert_arn))
    /\ [][InWait /\ validation_status = "SUCCESS" /\ ~Done =>
            /\ acmCalls' = acmCalls
            /\ sleeps' = sleeps
            /\ now' = now
            /\ pc' \in {"w_loop", "done"}]_vars

C1_Witness ==
    /\ InWait /\ Done /\ validation_status = "SUCCESS"
    /\ outcome = "returned" /\ retArn = cert_arn
    /\ Len(acmCalls) = 3 /\ Len(sleeps) = 2

\* C2: in wait_cert_validated, an iteration whose poll is not SUCCESS, taken
\* with elapsed = now - start, sleeps for min(wait_interval_secs,
\* max_wait_secs - elapsed); when that amount is not positive because the
\* budget is used up the iteration does not sleep at all.  The sleeps of one
\* call add up to at most max_wait_secs + wait_interval_secs.
C2_SleepIsMinAndBounded ==
    /\ [](InWait => Sum(sleeps) <= max_wait_secs + wait_interval_secs)
    /\ [][InWait /\ pc = "w_body" /\ validation_status /= "SUCCESS" =>
            LET elapsed == now - start
                amount  == Min(wait_interval_secs, max_wait_secs - elapsed)
            IN  IF elapsed < max_wait_secs
                THEN /\ sleeps' = Append(sleeps, amount)
                     /\ now' = now + amount
                ELSE /\ amount <= 0
                     /\ sleeps' = sleeps]_vars

C2_Witness ==
    /\ InWait /\ Len(sleeps) = 2
    /\ sleeps[1] = wait_interval_secs
    /\ sleeps[2] > 0 /\ sleeps[2] < wait_interval_secs
    /\ sleeps[2] = max_wait_secs - wait_secs

\* C3: wait_cert_validated with max_wait_secs = 0 whose first poll is not
\* SUCCESS makes that one describe_certificate call and no sleep, and then
\* ends: None when return_empty_on_timeout, the timeout error otherwise.
C3_ZeroBudgetOnePoll ==
    InWait /\ max_wait_secs = 0 =>
        /\ Len(acmCalls) <= 1
        /\ sleeps = <<>>
        /\ (pc = "w_body" /\ validation_status /= "SUCCESS" =>
                ENABLED wait_timeout /\ ~ENABLED wait_sleep)
        /\ (Done /\ validation_status /= "SUCCESS" =>
                /\ Len(acmCalls) = 1
                /\ IF return_empty_on_timeout
                   THEN outcome = "returned" /\ retArn = None
                   ELSE outcome = "Timeout")

C3_Witness ==
    /\ InWait /\ Done /\ max_wait_secs = 0
    /\ validation_status = "PENDING_VALIDATION"
    /\ outcome = "Timeout"
    /\ Len(acmCalls) = 1 /\ sleeps = <<>>

\* C4 as stated: a wait_cert_validated that ends on the timeout returns None
\* when return_empty_on_timeout, and otherwise raises an error that carries
\* the elapsed duration and the certificate subject.
C4_TimeoutCarriesElapsed ==
    InWait /\ Done /\ validation_status /= "SUCCESS" =>
        IF return_empty_on_timeout
        THEN outcome = "returned" /\ retArn = None
        ELSE /\ outcome = "Timeout"
             /\ errSecs = now - start
             /\ errSubject = Subject(cert_arn)

\* C4 (amended): a wait_cert_validated whose last poll is not SUCCESS ends
\* exactly when the elapsed time has reached max_wait_secs; it then returns
\* None when return_empty_on_timeout, and otherwise raises an error that
\* carries max_wait_secs (the budget, which the elapsed time may exceed) and
\* the certificate subject.  It never returns cert_arn on the timeout.
C4_TimeoutCarriesBudget ==
    /\ (InWait /\ pc = "w_body" /\ validation_status /= "SUCCESS"
          /\ now - start >= max_wait_secs =>
            ENABLED wait_timeout /\ ~ENABLED wait_sleep)
    /\ (InWait /\ Done /\ validation_status /= "SUCCESS" =>
          /\ now - start >= max_wait_secs
          /\ retArn /= cert_arn
          /\ IF return_empty_on_timeout
             THEN outcome = "returned" /\ retArn = None
             ELSE /\ outcome = "Timeout"
                  /\ retArn = Unset
                  /\ errSecs = max_wait_secs
                  /\ errSubject = Subject(cert_arn))

C4_Witness ==
    /\ InWait /\ Done /\ outcome = "Timeout"
    /\ now - start > max_wait_secs
    /\ errSecs = max_wait_secs
    /\ errSubject = "CN=two"

\* the part of d after its first '.', stated without index or slicing
AfterFirstDot(d, z) ==
    \E k \in 1..Len(d) :
        /\ d[k] = "."
        /\ \A j \in 1..(k - 1) : d[j] /= "."
        /\ z = [i \in 1..(Len(d) - k) |-> d[k + i]]

\* C5: a validate (through _create_route53_record) or
\* remove_validation_record that found a hosted zone has issued exactly one
\* change_resource_record_sets call, on the first zone listed, with exactly
\* one change: UPSERT resp. DELETE, TTL 60, and the name, type and value of
\* the record.
C5_OneChangePerCall ==
    (InValidate \/ InRemove) /\ Done /\ LookupCalls /= <<>> /\ hosted_zone /= <<>> =>
        /\ Len(ChangeCalls) = 1
        /\ Len(LookupCalls) = 1
        /\ ChangeCalls[1] = r53Calls[2]
        /\ ChangeCalls[1].HostedZoneId = hosted_zone[1]
        /\ ChangeCalls[1].Changes =
             << [Action |-> IF InValidate THEN "UPSERT" ELSE "DELETE",
                 Name   |-> dns_record.Name,
                 Type   |-> dns_record.Type,
                 TTL    |-> 60,
                 Value  |-> dns_record.Value] >>

C5_Witness ==
    /\ InRemove /\ Done /\ outcome = "returned"
    /\ Len(ChangeCalls) = 1
    /\ ChangeCalls[1].Changes[1].Action = "DELETE"
    /\ zoneRecords = {}

\* C6: when the zone lookup of validate or remove_validation_record answers
\* with no hosted zone, the operation fails with the zone-not-found error
\* after that one lookup, issues no change_resource_record_sets call, and
\* leaves the records of Route53 as they were.
C6_ZoneNotFoundStops ==
    /\ []((InValidate \/ InRemove) /\ Done /\ LookupCalls /= <<>> /\ hosted_zone = <<>> =>
            /\ outcome = "ZoneNotFound"
            /\ Len(r53Calls) = 1
            /\ IsLookup(r53Calls[1])
            /\ ChangeCalls = <<>>)
    /\ [][r53Calls' /= <<>> /\ hosted_zone' = <<>> => zoneRecords' = zoneRecords]_vars

C6_Witness ==
    /\ InRemove /\ Done /\ outcome = "ZoneNotFound"
    /\ Len(r53Calls) = 1
    /\ zoneRecords /= {}

\* C7 as stated: when CrossAccountDNSZoneIAMRole is present in the event's
\* ResourceProperties, every Route53 call of validate and
\* remove_validation_record goes through a client built from assume_role
\* credentials, obtained by one assume_role call of that operation.
C7_RoleInPropertiesIsAssumed ==
    (InValidate \/ InRemove) /\ ~event.none /\ RoleKey \in event.rp =>
        /\ \A i \in 1..Len(r53Calls) :
              /\ r53Calls[i].via = "assumed"
              /\ r53Calls[i].session = 1
        /\ (r53Calls /= <<>> => Len(stsCalls) = 1)

\* C8: request makes exactly one request_certificate call, for the domain and
\* with DNS validation, returns the arn of its answer, and makes the
\* add_tags_to_certificate call (once, on that arn) exactly when an event is
\* passed whose ResourceProperties hold Tags.
C8_TagsOnlyWhenPresent ==
    op = "request" /\ Done =>
        LET reqs == SelectSeq(acmCalls, IsRequestCertificate)
            tags == SelectSeq(acmCalls, IsAddTags)
        IN  /\ Len(reqs) = 1
            /\ reqs[1].DomainName = domain
            /\ reqs[1].ValidationMethod = "DNS"
            /\ acmCalls[1] = reqs[1]
            /\ outcome = "returned" /\ retArn = cert_arn
            /\ Len(tags) = (IF ~event.none /\ TagsKey \in event.rp THEN 1 ELSE 0)
            /\ Len(acmCalls) = 1 + Len(tags)
            /\ \A i \in 1..Len(tags) : tags[i].CertificateArn = cert_arn

C8_Witness ==
    /\ op = "request" /\ Done
    /\ ~event.none /\ TagsKey \in event.rp
    /\ Len(acmCalls) = 2 /\ IsAddTags(acmCalls[2])

\* C9: the DNSName of every hosted-zone lookup of validate and of
\* remove_validation_record is the part of the domain after its first '.';
\* a domain without '.' leads to no lookup.
C9_ZoneIsAfterFirstDot ==
    InValidate \/ InRemove =>
        /\ \A i \in 1..Len(LookupCalls) : AfterFirstDot(domain, LookupCalls[i].DNSName)
        /\ (Done /\ ~(\E k \in 1..Len(domain) : domain[k] = ".") => r53Calls = <<>>)

C9_Witness ==
    /\ InRemove /\ Done
    /\ domain = << "a", ".", "a", "." >>
    /\ Len(LookupCalls) = 1
    /\ LookupCalls[1].DNSName = << "a", "." >>

\* C10: validate makes no STS or Route53 call before a describe_certificate
\* answer holds the ResourceRecord; while it is missing the only step is a
\* 5-second sleep followed by another describe_certificate, and no timeout
\* ends the operation; every change it issues carries the record of the last
\* answer, and it returns that record.
C10_ChallengeBeforeDns ==
    InValidate =>
        /\ outcome /= "Timeout"
        /\ \A i \in 1..Len(sleeps) : sleeps[i] = 5
        /\ (pc = "v_describe" => Len(sleeps) = Len(acmCalls))
        /\ (pc \in {"v_loop", "done"} => Len(sleeps) = Len(acmCalls) - 1)
        /\ (~has_record => r53Calls = <<>> /\ stsCalls = <<>> /\ ~Done)
        /\ (pc = "v_loop" /\ ~has_record =>
                ENABLED validate_sleep /\ ~ENABLED validate_publish)
        /\ (pc = "v_loop" /\ has_record =>
                ENABLED validate_publish /\ ~ENABLED validate_sleep)
        /\ \A i \in 1..Len(ChangeCalls) :
              /\ Len(ChangeCalls[i].Changes) = 1
              /\ ChangeCalls[i].Changes[1].Name = dns_record.Name
              /\ ChangeCalls[i].Changes[1].Type = dns_record.Type
              /\ ChangeCalls[i].Changes[1].Value = dns_record.Value
        /\ (Done /\ outcome = "returned" =>
                retRec = dns_record /\ Len(ChangeCalls) = 1)

C10_Witness ==
    /\ InValidate /\ Done /\ outcome = "returned"
    /\ Len(acmCalls) = 3 /\ sleeps = << 5, 5 >>
    /\ retRec = dns_record
    /\ Len(r53Calls) = 2

====
